---- MODULE Spec2Model ----
(***************************************************************************)
(* versiondispatch: dispatch of a function to one of several registered    *)
(* implementations, chosen by the versions of installed packages.          *)
(*                                                                         *)
(* Text (predicate sets, package names, version strings) is modelled as    *)
(* sequences of one-character strings, so that splitting, stripping and    *)
(* the search for operator tokens are computed as the code computes them.  *)
(***************************************************************************)
EXTENDS Integers, Sequences, FiniteSets, TLC

(***************************************************************************)
(* Characters and elementary string functions of Python used by the code.  *)
(***************************************************************************)
None == <<>>

\* the element of a singleton set: {e(x) : x \in {v}} names the value v by x
Only(S) == CHOOSE v \in S : TRUE

DIGITS == <<"0", "1", "2", "3", "4", "5", "6", "7", "8", "9">>

UPPER == <<"A", "B", "C", "D", "E", "F", "G", "H", "I", "J", "K", "L", "M",
           "N", "O", "P", "Q", "R", "S", "T", "U", "V", "W", "X", "Y", "Z">>

LOWER == <<"a", "b", "c", "d", "e", "f", "g", "h", "i", "j", "k", "l", "m",
           "n", "o", "p", "q", "r", "s", "t", "u", "v", "w", "x", "y", "z">>

Range(s) == {s[i] : i \in 1..Len(s)}

IsDigit(c) == c \in Range(DIGITS)

IsSpace(c) == c = " "

\* position of c in the sequence alphabet (0 when absent)
IndexOf(c, alphabet) ==
    IF c \in Range(alphabet)
    THEN CHOOSE i \in 1..Len(alphabet) : alphabet[i] = c
    ELSE 0

\* str.lower() on one character
LowerChar(c) == IF c \in Range(UPPER) THEN LOWER[IndexOf(c, UPPER)] ELSE c

\* str.lower()
RECURSIVE lower(_)
lower(s) == IF s = <<>> THEN <<>> ELSE <<LowerChar(Head(s))>> \o lower(Tail(s))

\* str.replace(old, new) for one-character old and new
RECURSIVE replace(_, _, _)
replace(s, old, new) ==
    IF s = <<>> THEN <<>>
    ELSE <<IF Head(s) = old THEN new ELSE Head(s)>> \o replace(Tail(s), old, new)

\* index of the first occurrence of character c in s (0 when absent)
FirstIndex(s, c) ==
    IF \E i \in 1..Len(s) : s[i] = c
    THEN CHOOSE i \in 1..Len(s) : s[i] = c /\ \A j \in 1..(i - 1) : s[j] # c
    ELSE 0

\* str.split(sep) for a one-character separator
RECURSIVE split(_, _)
split(s, sep) ==
    LET i == FirstIndex(s, sep)
    IN  IF i = 0 THEN <<s>>
        ELSE <<SubSeq(s, 1, i - 1)>> \o split(SubSeq(s, i + 1, Len(s)), sep)

RECURSIVE lstrip(_)
lstrip(s) == IF s # <<>> /\ IsSpace(Head(s)) THEN lstrip(Tail(s)) ELSE s

RECURSIVE rstrip(_)
rstrip(s) ==
    IF s # <<>> /\ IsSpace(s[Len(s)]) THEN rstrip(SubSeq(s, 1, Len(s) - 1)) ELSE s

\* str.strip()
strip(s) == rstrip(lstrip(s))

\* sep.join(parts) for a one-character separator
RECURSIVE join(_, _)
join(sep, parts) ==
    IF parts = <<>> THEN <<>>
    ELSE IF Len(parts) = 1 THEN parts[1]
    ELSE parts[1] \o <<sep>> \o join(sep, Tail(parts))

\* concatenation of a sequence of sequences
RECURSIVE Concat(_)
Concat(seqs) == IF seqs = <<>> THEN <<>> ELSE Head(seqs) \o Concat(Tail(seqs))

\* int(text) for a text of decimal digits
RECURSIVE int(_)
int(s) ==
    IF s = <<>> THEN 0
    ELSE 10 * int(SubSeq(s, 1, Len(s) - 1)) + (IndexOf(s[Len(s)], DIGITS) - 1)

(***************************************************************************)
(* Operator tokens and the parsing of one predicate clause.                *)
(***************************************************************************)
\* the keys of _OP_TABLE with the one-character tokens before the others
_OP_TABLE_short_first ==
    << <<">">>, <<"<">>, <<"=", "=">>, <<">", "=">>, <<"<", "=">> >>

\* the keys of _OP_TABLE, in the order in which _OP_PAT tries them
_OP_TABLE == << <<"=", "=">>, <<">", "=">>, <<"<", "=">>, <<">">>, <<"<">> >>

StartsWithAt(s, i, tok) ==
    /\ i + Len(tok) - 1 <= Len(s)
    /\ SubSeq(s, i, i + Len(tok) - 1) = tok

\* the alternative of _OP_PAT that matches at position i (None when none does)
OpAt(s, i) ==
    IF \E k \in 1..Len(_OP_TABLE) : StartsWithAt(s, i, _OP_TABLE[k])
    THEN _OP_TABLE[CHOOSE k \in 1..Len(_OP_TABLE) :
                       /\ StartsWithAt(s, i, _OP_TABLE[k])
                       /\ \A j \in 1..(k - 1) : ~StartsWithAt(s, i, _OP_TABLE[j])]
    ELSE None

\* _OP_PAT.search(s): position of the leftmost match (0 when there is none)
_OP_PAT_search(s) ==
    IF \E i \in 1..Len(s) : OpAt(s, i) # None
    THEN CHOOSE i \in 1..Len(s) :
             OpAt(s, i) # None /\ \A j \in 1..(i - 1) : OpAt(s, j) = None
    ELSE 0

\* _OP_PAT.split(s): the pieces between successive non-overlapping matches
RECURSIVE _OP_PAT_split(_)
_OP_PAT_split(s) ==
    LET i == _OP_PAT_search(s)
    IN  IF i = 0 THEN <<s>>
        ELSE <<SubSeq(s, 1, i - 1)>>
             \o _OP_PAT_split(SubSeq(s, i + Len(OpAt(s, i)), Len(s)))

(***************************************************************************)
(* Version: the vendored version class.  The regular expression is         *)
(* evaluated as a backtracking matcher: every piece returns the sequence   *)
(* of its possible matches in the order in which the regex engine tries    *)
(* them, and the first thread that reaches the end of the text gives the   *)
(* captured groups.                                                        *)
(***************************************************************************)
FlatMap(F(_), ts) == Only({Concat([k \in 1..Len(v) |-> F(v[k])]) : v \in {ts}})

\* number of consecutive characters from position i on whose lower case is in chars
RunLen(s, i, chars) ==
    CHOOSE n \in 0..(Len(s) - i + 1) :
        /\ \A k \in i..(i + n - 1) : LowerChar(s[k]) \in chars
        /\ (i + n > Len(s) \/ LowerChar(s[i + n]) \notin chars)

\* end positions of the matches of a greedy chars+ at position i, longest first
PlusEnds(s, i, chars) ==
    LET n == RunLen(s, i, chars) IN [k \in 1..n |-> i + n - k + 1]

\* end positions of the matches of a greedy chars* at position i, longest first
StarEnds(s, i, chars) == PlusEnds(s, i, chars) \o <<i>>

\* case-insensitive match of the literal lit at position i
LitAt(s, i, lit) ==
    /\ i + Len(lit) - 1 <= Len(s)
    /\ lower(SubSeq(s, i, i + Len(lit) - 1)) = lit

\* end positions of the matches of the alternation alts at i, in the order of alts
AltEnds(s, i, alts) ==
    FlatMap(LAMBDA lit : IF LitAt(s, i, lit) THEN <<i + Len(lit)>> ELSE <<>>, alts)

SEPARATORS == {"-", "_", "."}

\* end positions of the matches of an optional separator [-_\.]? at i
SepEnds(s, i) ==
    IF i <= Len(s) /\ s[i] \in SEPARATORS THEN <<i + 1, i>> ELSE <<i>>

PRE_LETTERS == << <<"a">>, <<"b">>, <<"c">>, <<"r", "c">>,
                  <<"a", "l", "p", "h", "a">>, <<"b", "e", "t", "a">>,
                  <<"p", "r", "e">>, <<"p", "r", "e", "v", "i", "e", "w">> >>

POST_LETTERS == << <<"p", "o", "s", "t">>, <<"r", "e", "v">>, <<"r">> >>

DEV_LETTERS == << <<"d", "e", "v">> >>

LOCAL_CHARS == Range(LOWER) \cup Range(DIGITS)

NoMatch == [pos |-> 1, epoch |-> None, release |-> None,
            pre_l |-> None, pre_n |-> None,
            post_n1 |-> None, post_l |-> None, post_n2 |-> None,
            dev_l |-> None, dev_n |-> None, local |-> None]

\* ^\s*  and  \s*$
M_space(s, t) ==
    [k \in 1..Len(StarEnds(s, t.pos, {" "})) |->
        [t EXCEPT !.pos = StarEnds(s, t.pos, {" "})[k]]]

\* v?
M_v(s, t) ==
    IF LitAt(s, t.pos, <<"v">>) THEN <<[t EXCEPT !.pos = t.pos + 1], t>> ELSE <<t>>

\* (?:(?P<epoch>[0-9]+)!)?
M_epoch(s, t) ==
    FlatMap(LAMBDA j : IF LitAt(s, j, <<"!">>)
                       THEN <<[t EXCEPT !.pos = j + 1,
                                        !.epoch = SubSeq(s, t.pos, j - 1)]>>
                       ELSE <<>>,
            PlusEnds(s, t.pos, Range(DIGITS)))
    \o <<t>>

\* end positions of the matches of (?:\.[0-9]+)* at position i
RECURSIVE ReleaseTailEnds(_, _)
ReleaseTailEnds(s, i) ==
    (IF LitAt(s, i, <<".">>)
     THEN FlatMap(LAMBDA j : ReleaseTailEnds(s, j),
                  PlusEnds(s, i + 1, Range(DIGITS)))
     ELSE <<>>)
    \o <<i>>

\* (?P<release>[0-9]+(?:\.[0-9]+)*)
M_release(s, t) ==
    FlatMap(LAMBDA j : <<[t EXCEPT !.pos = j,
                                   !.release = SubSeq(s, t.pos, j - 1)]>>,
            FlatMap(LAMBDA j : ReleaseTailEnds(s, j),
                    PlusEnds(s, t.pos, Range(DIGITS))))

\* matches at i of  [-_\.]? (letter) [-_\.]? ([0-9]+)?  with letter one of alts:
\* the end position, the letter and the number (None when absent) of each
LetterNumberAt(s, i1, i2, l) ==
    FlatMap(LAMBDA i3 :
                [k \in 1..Len(PlusEnds(s, i3, Range(DIGITS))) |->
                    [pos |-> PlusEnds(s, i3, Range(DIGITS))[k], l |-> l,
                     n |-> SubSeq(s, i3, PlusEnds(s, i3, Range(DIGITS))[k] - 1)]]
                \o <<[pos |-> i3, l |-> l, n |-> None]>>,
            SepEnds(s, i2))

LetterGroup(s, i, alts) ==
    FlatMap(LAMBDA i1 :
                FlatMap(LAMBDA i2 : LetterNumberAt(s, i1, i2, SubSeq(s, i1, i2 - 1)),
                        AltEnds(s, i1, alts)),
            SepEnds(s, i))

\* (?P<pre>[-_\.]?(?P<pre_l>(a|b|c|rc|alpha|beta|pre|preview))[-_\.]?(?P<pre_n>[0-9]+)?)?
M_pre(s, t) ==
    FlatMap(LAMBDA g : <<[t EXCEPT !.pos = g.pos, !.pre_l = g.l, !.pre_n = g.n]>>,
            LetterGroup(s, t.pos, PRE_LETTERS))
    \o <<t>>

\* (?P<post>(?:-(?P<post_n1>[0-9]+))|(?:[-_\.]?(?P<post_l>post|rev|r)[-_\.]?(?P<post_n2>[0-9]+)?))?
M_post(s, t) ==
    (IF LitAt(s, t.pos, <<"-">>)
     THEN FlatMap(LAMBDA j : <<[t EXCEPT !.pos = j,
                                         !.post_n1 = SubSeq(s, t.pos + 1, j - 1)]>>,
                  PlusEnds(s, t.pos + 1, Range(DIGITS)))
     ELSE <<>>)
    \o FlatMap(LAMBDA g : <<[t EXCEPT !.pos = g.pos, !.post_l = g.l, !.post_n2 = g.n]>>,
               LetterGroup(s, t.pos, POST_LETTERS))
    \o <<t>>

\* (?P<dev>[-_\.]?(?P<dev_l>dev)[-_\.]?(?P<dev_n>[0-9]+)?)?
M_dev(s, t) ==
    FlatMap(LAMBDA g : <<[t EXCEPT !.pos = g.pos, !.dev_l = g.l, !.dev_n = g.n]>>,
            LetterGroup(s, t.pos, DEV_LETTERS))
    \o <<t>>

\* end positions of the matches of (?:[-_\.][a-z0-9]+)* at position i
RECURSIVE LocalTailEnds(_, _)
LocalTailEnds(s, i) ==
    (IF i <= Len(s) /\ s[i] \in SEPARATORS
     THEN FlatMap(LAMBDA j : LocalTailEnds(s, j), PlusEnds(s, i + 1, LOCAL_CHARS))
     ELSE <<>>)
    \o <<i>>

\* (?:\+(?P<local>[a-z0-9]+(?:[-_\.][a-z0-9]+)*))?
M_local(s, t) ==
    (IF LitAt(s, t.pos, <<"+">>)
     THEN FlatMap(LAMBDA j : <<[t EXCEPT !.pos = j,
                                         !.local = SubSeq(s, t.pos + 1, j - 1)]>>,
                  FlatMap(LAMBDA j : LocalTailEnds(s, j),
                          PlusEnds(s, t.pos + 1, LOCAL_CHARS)))
     ELSE <<>>)
    \o <<t>>

\* the threads of Version._regex on s that reach the end of the text
_regex_threads(s) ==
    LET t0 == FlatMap(LAMBDA t : M_v(s, t), M_space(s, NoMatch))
        t1 == FlatMap(LAMBDA t : M_release(s, t),
                      FlatMap(LAMBDA t : M_epoch(s, t), t0))
        t2 == FlatMap(LAMBDA t : M_post(s, t), FlatMap(LAMBDA t : M_pre(s, t), t1))
        t3 == FlatMap(LAMBDA t : M_local(s, t), FlatMap(LAMBDA t : M_dev(s, t), t2))
        t4 == FlatMap(LAMBDA t : M_space(s, t), t3)
    IN  FlatMap(LAMBDA t : IF t.pos = Len(s) + 1 THEN <<t>> ELSE <<>>, t4)

\* Version._regex.search(s): the groups of the first match (None when there is none)
_regex_search(s) ==
    Only({IF threads = <<>> THEN None ELSE threads[1] :
          threads \in {_regex_threads(s)}})

(***************************************************************************)
(* Parsed versions and their comparison key.  A (letter, number) pair is   *)
(* <<letter, number>>; an absent segment is None.  In the key, Infinity    *)
(* and NegativeInfinity are the records with inf = 1 and inf = -1.         *)
(***************************************************************************)
Infinity == [inf |-> 1, l |-> <<>>, n |-> 0]

NegativeInfinity == [inf |-> -1, l |-> <<>>, n |-> 0]

_parse_letter_version(letter, number) ==
    IF letter # None
    THEN LET l == lower(letter)
             norm == IF l = <<"a", "l", "p", "h", "a">> THEN <<"a">>
                     ELSE IF l = <<"b", "e", "t", "a">> THEN <<"b">>
                     ELSE IF l \in {<<"c">>, <<"p", "r", "e">>,
                                    <<"p", "r", "e", "v", "i", "e", "w">>}
                          THEN <<"r", "c">>
                     ELSE IF l \in {<<"r", "e", "v">>, <<"r">>}
                          THEN <<"p", "o", "s", "t">>
                     ELSE l
         IN  <<norm, IF number = None THEN 0 ELSE int(number)>>
    ELSE IF number # None
    THEN << <<"p", "o", "s", "t">>, int(number)>>
    ELSE None

\* _local_version_separators.split(local)
RECURSIVE _local_version_separators_split(_)
_local_version_separators_split(s) ==
    IF \E i \in 1..Len(s) : s[i] \in SEPARATORS
    THEN LET i == CHOOSE i \in 1..Len(s) :
                      s[i] \in SEPARATORS /\ \A j \in 1..(i - 1) : s[j] \notin SEPARATORS
         IN  <<SubSeq(s, 1, i - 1)>>
             \o _local_version_separators_split(SubSeq(s, i + 1, Len(s)))
    ELSE <<s>>

\* str.isdigit()
isdigit(s) == s # <<>> /\ \A i \in 1..Len(s) : IsDigit(s[i])

\* a part of a local version: an integer, or a lower-case string
_parse_local_version(local) ==
    IF local # None
    THEN LET parts == _local_version_separators_split(local)
         IN  [k \in 1..Len(parts) |->
                 IF isdigit(parts[k])
                 THEN [isint |-> TRUE, i |-> int(parts[k]), s |-> <<>>]
                 ELSE [isint |-> FALSE, i |-> 0, s |-> lower(parts[k])]]
    ELSE None

\* the release as it is, with its trailing zeros
KeepTrailingZeros(release) == release

\* itertools.dropwhile(lambda x: x == 0, reversed(release)), reversed again
RECURSIVE DropTrailingZeros(_)
DropTrailingZeros(release) ==
    IF release # <<>> /\ release[Len(release)] = 0
    THEN DropTrailingZeros(SubSeq(release, 1, Len(release) - 1))
    ELSE release

Pair(p) == [inf |-> 0, l |-> p[1], n |-> p[2]]

\* _cmpkey without the first branch of lines 661-662: a version without pre
\* segment has Infinity as the pre element of its key
_cmpkey_dev_as_final(epoch, release, pre, post, dev, local) ==
    [epoch   |-> epoch,
     release |-> DropTrailingZeros(release),
     pre     |-> IF pre = None THEN Infinity ELSE Pair(pre),
     post    |-> IF post = None THEN NegativeInfinity ELSE Pair(post),
     dev     |-> IF dev = None THEN Infinity ELSE Pair(dev),
     local   |-> IF local = None THEN [absent |-> TRUE, parts |-> <<>>]
                 ELSE [absent |-> FALSE,
                       parts |-> [k \in 1..Len(local) |->
                                     IF local[k].isint
                                     THEN [neginf |-> FALSE, i |-> local[k].i,
                                           s |-> <<>>]
                                     ELSE [neginf |-> TRUE, i |-> 0,
                                           s |-> local[k].s]]]]

_cmpkey(epoch, release, pre, post, dev, local) ==
    [epoch   |-> epoch,
     release |-> DropTrailingZeros(release),
     pre     |-> IF pre = None /\ post = None /\ dev # None THEN NegativeInfinity
                 ELSE IF pre = None THEN Infinity
                 ELSE Pair(pre),
     post    |-> IF post = None THEN NegativeInfinity ELSE Pair(post),
     dev     |-> IF dev = None THEN Infinity ELSE Pair(dev),
     local   |-> IF local = None THEN [absent |-> TRUE, parts |-> <<>>]
                 ELSE [absent |-> FALSE,
                       parts |-> [k \in 1..Len(local) |->
                                     IF local[k].isint
                                     THEN [neginf |-> FALSE, i |-> local[k].i,
                                           s |-> <<>>]
                                     ELSE [neginf |-> TRUE, i |-> 0,
                                           s |-> local[k].s]]]]

InvalidVersion == [valid |-> FALSE]

\* Version(version): InvalidVersion, or the parsed version with its key
Version(version) ==
    Only({IF match = None THEN InvalidVersion
          ELSE Only({[valid    |-> TRUE,
                      _version |-> _version,
                      _key     |-> _cmpkey(_version.epoch, _version.release,
                                           _version.pre, _version.post,
                                           _version.dev, _version.local)] :
                     _version \in
                         {[epoch   |-> IF match.epoch # None THEN int(match.epoch) ELSE 0,
                           release |-> [k \in 1..Len(split(match.release, ".")) |->
                                           int(split(match.release, ".")[k])],
                           pre     |-> _parse_letter_version(match.pre_l, match.pre_n),
                           post    |-> _parse_letter_version(
                                           match.post_l,
                                           IF match.post_n1 # None THEN match.post_n1
                                           ELSE match.post_n2),
                           dev     |-> _parse_letter_version(match.dev_l, match.dev_n),
                           local   |-> _parse_local_version(match.local)]}}) :
          match \in {_regex_search(version)}})

(***************************************************************************)
(* Comparison of keys.  An ordering operator is one of the tokens <, <=,   *)
(* >, >= of _OP_TABLE.  Python compares two tuples by the first position   *)
(* at which their elements are not equal, with the operator applied to the *)
(* two elements there, and by their lengths when there is none.  x op y    *)
(* runs the method of x; when x is an int, a str or a tuple and y is a     *)
(* sentinel, that method gives NotImplemented and the reflected method of  *)
(* y runs with x as its argument.                                          *)
(***************************************************************************)
LT == <<"<">>

LE == <<"<", "=">>

GT == <<">">>

GE == <<">", "=">>

\* the reflected operator: x op y is y Reflected(op) x
Reflected(op) ==
    IF op = LT THEN GT ELSE IF op = GT THEN LT ELSE IF op = LE THEN GE ELSE LE

CmpInt(a, b) == IF a < b THEN -1 ELSE IF a > b THEN 1 ELSE 0

\* the code point order of the characters that occur in versions
Ord(c) == IndexOf(c, DIGITS \o UPPER \o LOWER)

RECURSIVE CmpStr(_, _)
CmpStr(a, b) ==
    IF a = <<>> /\ b = <<>> THEN 0
    ELSE IF a = <<>> THEN -1
    ELSE IF b = <<>> THEN 1
    ELSE IF Head(a) # Head(b) THEN CmpInt(Ord(Head(a)), Ord(Head(b)))
    ELSE CmpStr(Tail(a), Tail(b))

\* a op b for two ints
IntOp(op, a, b) ==
    IF op = LT THEN a < b
    ELSE IF op = LE THEN a <= b
    ELSE IF op = GT THEN a > b
    ELSE a >= b

\* a op b for two strs
StrOp(op, a, b) == IntOp(op, CmpStr(a, b), 0)

\* InfinityType with __le__ returning True: Infinity <= x for every x
InfinityType_le_true(op, other) ==
    IF op = LT THEN FALSE
    ELSE IF op = LE THEN TRUE
    ELSE IF op = GT THEN TRUE
    ELSE TRUE

\* InfinityType.__lt__, __le__, __gt__, __ge__ (lines 281-297)
InfinityType(op, other) ==
    IF op = LT THEN FALSE
    ELSE IF op = LE THEN FALSE
    ELSE IF op = GT THEN TRUE
    ELSE TRUE

\* NegativeInfinityType with __lt__ returning False
NegativeInfinityType_lt_false(op, other) ==
    IF op = LT THEN FALSE
    ELSE IF op = LE THEN TRUE
    ELSE IF op = GT THEN FALSE
    ELSE FALSE

\* NegativeInfinityType.__lt__, __le__, __gt__, __ge__ (lines 310-326)
NegativeInfinityType(op, other) ==
    IF op = LT THEN TRUE
    ELSE IF op = LE THEN TRUE
    ELSE IF op = GT THEN FALSE
    ELSE FALSE

\* the first position at which the tuples a and b have elements that are not
\* equal (0 when there is none)
FirstDiff(a, b) ==
    IF \E i \in 1..Len(a) : i <= Len(b) /\ a[i] # b[i]
    THEN CHOOSE i \in 1..Len(a) :
             /\ i <= Len(b) /\ a[i] # b[i]
             /\ \A j \in 1..(i - 1) : a[j] = b[j]
    ELSE 0

\* a op b for two release tuples whose first unequal elements are at i
ReleaseOpAt(op, a, b, i) ==
    IF i = 0 THEN IntOp(op, Len(a), Len(b)) ELSE IntOp(op, a[i], b[i])

ReleaseOp(op, a, b) == ReleaseOpAt(op, a, b, FirstDiff(a, b))

\* a op b for Infinity, NegativeInfinity or a (letter, number) pair
PrePostDevOp(op, a, b) ==
    IF a.inf = 1 THEN InfinityType(op, b)
    ELSE IF a.inf = -1 THEN NegativeInfinityType(op, b)
    ELSE IF b.inf = 1 THEN InfinityType(Reflected(op), a)
    ELSE IF b.inf = -1 THEN NegativeInfinityType(Reflected(op), a)
    ELSE IF a.l # b.l THEN StrOp(op, a.l, b.l)
    ELSE IF a.n # b.n THEN IntOp(op, a.n, b.n)
    ELSE IntOp(op, 2, 2)

\* a op b for two parts of a local version: (i, "") for a number and
\* (NegativeInfinity, s) for a string
LocalPartOp(op, a, b) ==
    IF a.neginf /\ b.neginf
    THEN IF a.s # b.s THEN StrOp(op, a.s, b.s) ELSE IntOp(op, 2, 2)
    ELSE IF a.neginf THEN NegativeInfinityType(op, b.i)
    ELSE IF b.neginf THEN NegativeInfinityType(Reflected(op), a.i)
    ELSE IF a.i # b.i THEN IntOp(op, a.i, b.i)
    ELSE StrOp(op, a.s, b.s)

\* a op b for two tuples of parts whose first unequal elements are at i
LocalPartsOpAt(op, a, b, i) ==
    IF i = 0 THEN IntOp(op, Len(a), Len(b)) ELSE LocalPartOp(op, a[i], b[i])

\* a op b for the local elements of two keys: NegativeInfinity or a tuple
LocalOp(op, a, b) ==
    IF a.absent THEN NegativeInfinityType(op, b)
    ELSE IF b.absent THEN NegativeInfinityType(Reflected(op), a)
    ELSE LocalPartsOpAt(op, a.parts, b.parts, FirstDiff(a.parts, b.parts))

\* a op b for two keys (epoch, release, pre, post, dev, local)
KeyOp(op, a, b) ==
    IF a.epoch # b.epoch THEN IntOp(op, a.epoch, b.epoch)
    ELSE IF a.release # b.release THEN ReleaseOp(op, a.release, b.release)
    ELSE IF a.pre # b.pre THEN PrePostDevOp(op, a.pre, b.pre)
    ELSE IF a.post # b.post THEN PrePostDevOp(op, a.post, b.post)
    ELSE IF a.dev # b.dev THEN PrePostDevOp(op, a.dev, b.dev)
    ELSE IF a.local # b.local THEN LocalOp(op, a.local, b.local)
    ELSE IntOp(op, 6, 6)

\* the comparison methods of _BaseVersion (lines 385-413)
__eq__(v0, v1) == v0._key = v1._key

__lt__(v0, v1) == KeyOp(LT, v0._key, v1._key)

__le__(v0, v1) == KeyOp(LE, v0._key, v1._key)

__gt__(v0, v1) == KeyOp(GT, v0._key, v1._key)

__ge__(v0, v1) == KeyOp(GE, v0._key, v1._key)

\* _OP_TABLE[token](v0, v1)
ApplyOp(op, v0, v1) ==
    IF op = <<"=", "=">> THEN __eq__(v0, v1)
    ELSE IF op = <<">", "=">> THEN __ge__(v0, v1)
    ELSE IF op = <<"<", "=">> THEN __le__(v0, v1)
    ELSE IF op = <<">">> THEN __gt__(v0, v1)
    ELSE __lt__(v0, v1)

(***************************************************************************)
(* The environment: installed packages, the interpreter version, and the   *)
(* texts the operations are called with.                                   *)
(***************************************************************************)
rich == <<"r", "i", "c", "h">>

pytest == <<"p", "y", "t", "e", "s", "t">>

Python == <<"P", "y", "t", "h", "o", "n">>

os == <<"o", "s">>

\* the distributions importlib.metadata finds, with their versions
Installed == [p \in {rich, pytest} |-> <<"2", ".", "0">>]

\* sys.version_info[:3]
sys_version_info == <<3, 9, 1>>

\* str(n) for a natural number n
RECURSIVE str(_)
str(n) == IF n < 10 THEN <<DIGITS[n + 1]>> ELSE str(n \div 10) \o <<DIGITS[(n % 10) + 1]>>

\* the properties post, dev and local of Version (lines 535-549); an
\* Optional[int] is <<n>> or None
Version_post(self) ==
    IF self._version.post # None THEN <<self._version.post[2]>> ELSE None

Version_dev(self) ==
    IF self._version.dev # None THEN <<self._version.dev[2]>> ELSE None

Version_local(self) ==
    IF self._version.local # None
    THEN join(".", [k \in 1..Len(self._version.local) |->
                       IF self._version.local[k].isint
                       THEN str(self._version.local[k].i)
                       ELSE self._version.local[k].s])
    ELSE None

\* Version.__str__ without the epoch
__str___without_epoch(self) ==
    join(".", [k \in 1..Len(self._version.release) |->
                  str(self._version.release[k])])
    \o (IF self._version.pre # None
        THEN self._version.pre[1] \o str(self._version.pre[2]) ELSE <<>>)
    \o (IF Version_post(self) # None
        THEN <<".", "p", "o", "s", "t">> \o str(Version_post(self)[1]) ELSE <<>>)
    \o (IF Version_dev(self) # None
        THEN <<".", "d", "e", "v">> \o str(Version_dev(self)[1]) ELSE <<>>)
    \o (IF Version_local(self) # None
        THEN <<"+">> \o Version_local(self) ELSE <<>>)

\* Version.__str__ (lines 492-518)
__str__(self) ==
    (IF self._version.epoch # 0 THEN str(self._version.epoch) \o <<"!">> ELSE <<>>)
    \o join(".", [k \in 1..Len(self._version.release) |->
                     str(self._version.release[k])])
    \o (IF self._version.pre # None
        THEN self._version.pre[1] \o str(self._version.pre[2]) ELSE <<>>)
    \o (IF Version_post(self) # None
        THEN <<".", "p", "o", "s", "t">> \o str(Version_post(self)[1]) ELSE <<>>)
    \o (IF Version_dev(self) # None
        THEN <<".", "d", "e", "v">> \o str(Version_dev(self)[1]) ELSE <<>>)
    \o (IF Version_local(self) # None
        THEN <<"+">> \o Version_local(self) ELSE <<>>)

\* an exception is named by a string; "none" is normal completion
\*   "format"     ValueError: Version not correctly specified, should be like ...
\*   "unpack"     ValueError: too many values to unpack (line 41)
\*   "incorrect"  ValueError: ... uses incorrect version spec or package is not installed
\*   "nesting"    ValueError: You are nesting versiondispatch, which is not supported
\*   "PackageNotFoundError", "InvalidVersion"
Raise(e) == [exc |-> e, value |-> None]

Return(v) == [exc |-> "none", value |-> v]

\* importlib.metadata.version(package)
_get_version(package) ==
    IF package \in DOMAIN Installed THEN Return(Installed[package])
    ELSE Raise("PackageNotFoundError")

\* Version(text) as a call that can raise
NewVersion(text) ==
    Only({IF v.valid THEN Return(v) ELSE Raise("InvalidVersion") :
          v \in {Version(text)}})

_is_valid_version(version) == Version(version).valid

_is_valid_package(package) ==
    IF lower(package) = lower(Python) THEN TRUE
    ELSE _get_version(package).exc # "PackageNotFoundError"

\* the module-level get_version (lines 67-71)
get_version_orig(package) ==
    IF lower(package) = lower(Python)
    THEN NewVersion(join(".", [k \in 1..3 |-> str(sys_version_info[k])]))
    ELSE Only({IF version.exc # "none" THEN version ELSE NewVersion(version.value) :
               version \in {_get_version(package)}})

\* the get_version defined inside pretend_version (lines 113-119)
pretend_get_version(version_dict, package) ==
    Only({IF version.exc # "none" THEN version ELSE NewVersion(version.value) :
          version \in {IF package \in DOMAIN version_dict
                       THEN Return(version_dict[package])
                       ELSE _get_version(package)}})

\* the function the global name get_version is bound to
OrigResolver == [pretend |-> FALSE, version_dict |-> <<>>]

PretendResolver(version_dict) == [pretend |-> TRUE, version_dict |-> version_dict]

\* a call of the function gv that the name get_version is bound to
CallGetVersion(gv, package) ==
    IF gv.pretend THEN pretend_get_version(gv.version_dict, package)
    ELSE get_version_orig(package)

(***************************************************************************)
(* Predicates.                                                             *)
(***************************************************************************)
_split_package_version(package_version) ==
    LET parts == _OP_PAT_split(package_version)
    IN  IF _OP_PAT_search(package_version) = 0 THEN Raise("format")
        ELSE IF Len(parts) # 2 THEN Raise("unpack")
        ELSE Return([package |-> strip(parts[1]),
                     version |-> strip(parts[2]),
                     op      |-> OpAt(package_version,
                                      _OP_PAT_search(package_version))])

_matches_version(gv, package, version, op) ==
    Only({IF v0.exc # "none" THEN v0
          ELSE Only({IF v1.exc # "none" THEN Raise("NotImplementedError")
                     ELSE Return(ApplyOp(op, v0.value, v1.value)) :
                     v1 \in {NewVersion(version)}}) :
          v0 \in {CallGetVersion(gv, package)}})

\* _matches_all_versions with any(...) in the place of all(...)
_matches_any_version(gv, package_versions) ==
    Return(\E k \in 1..Len(package_versions) :
               _matches_version(gv, package_versions[k].package,
                                package_versions[k].version,
                                package_versions[k].op) = Return(TRUE))

\* all(...) over a generator: stops at the first clause that is false or raises
RECURSIVE _matches_all_versions(_, _)
_matches_all_versions(gv, package_versions) ==
    IF package_versions = <<>> THEN Return(TRUE)
    ELSE Only({IF m.exc # "none" THEN m
               ELSE IF ~m.value THEN Return(FALSE)
               ELSE _matches_all_versions(gv, Tail(package_versions)) :
               m \in {_matches_version(gv, Head(package_versions).package,
                                       Head(package_versions).version,
                                       Head(package_versions).op)}})

\* the split of register (line 183)
register_splits(package_versions) ==
    LET pieces == split(replace(package_versions, ";", ","), ",")
    IN  [k \in 1..Len(pieces) |-> strip(pieces[k])]

\* the loop of _register (lines 187-197): the parsed clauses, or the exception
\* of the first clause that is rejected
RECURSIVE _register_loop(_, _)
_register_loop(package_version_list, packages_versions) ==
    IF package_version_list = <<>> THEN Return(packages_versions)
    ELSE Only({IF pv.exc # "none" THEN pv
               ELSE IF ~(_is_valid_package(pv.value.package)
                         /\ _is_valid_version(pv.value.version))
                    THEN Raise("incorrect")
               ELSE _register_loop(Tail(package_version_list),
                                   Append(packages_versions, pv.value)) :
               pv \in {_split_package_version(Head(package_version_list))}})

\* register(package_versions): the exception raised, or the closure of outer:
\* package_version_list, packages_versions and the last value of version
register(package_versions) ==
    Only({Only({IF loop.exc # "none" THEN loop
                ELSE Return([package_version_list |-> package_version_list,
                             packages_versions    |-> loop.value,
                             version |-> loop.value[Len(loop.value)].version]) :
                loop \in {_register_loop(package_version_list, <<>>)}}) :
          package_version_list \in {register_splits(package_versions)}})

(***************************************************************************)
(* Inputs of the operations.                                               *)
(***************************************************************************)
\* rich<1.0   (matches when rich is below 1.0)
T_rich_lt ==
    <<"r", "i", "c", "h", "<", "1", ".", "0">>

\* rich>=1   (matches the installed rich)
T_rich_ge ==
    <<"r", "i", "c", "h", ">", "=", "1">>

\* pytest<1.0   (matches when pytest is below 1.0)
T_pytest_lt ==
    <<"p", "y", "t", "e", "s", "t", "<", "1", ".", "0">>

\* rich<1.0, pytest<1.0   (two clauses separated by a comma and a space)
T_both_lt == T_rich_lt \o <<",", " ">> \o T_pytest_lt

\* pytest<1.0 ;rich<1.0   (two clauses separated by a space and a semicolon)
T_both_lt_semi == T_pytest_lt \o <<" ", ";">> \o T_rich_lt

\* Python>=3   (the reserved subject)
T_python ==
    <<"P", "y", "t", "h", "o", "n", ">", "=", "3">>

\* rich=1.0   (a single = is not an operator token)
T_single_eq ==
    <<"r", "i", "c", "h", "=", "1", ".", "0">>

\* rich>=1,pytest=1   (no operator token in the second clause)
T_second_single_eq ==
    <<"r", "i", "c", "h", ">", "=", "1", ",", "p", "y", "t", "e", "s", "t", "=", "1">>

\* os==win32   (a subject that is not an installed package)
T_os ==
    <<"o", "s", "=", "=", "w", "i", "n", "3", "2">>

\* os<win32   (an ordering operator on a subject that has no version)
T_os_lt ==
    <<"o", "s", "<", "w", "i", "n", "3", "2">>

\* os==1.0,rich=1.0   (an unknown subject, then a clause without operator token)
T_os_then_single_eq ==
    <<"o", "s", "=", "=", "1", ".", "0", ",", "r", "i", "c", "h", "=", "1", ".", "0">>

\* rich==1.foo   (a target that is not a version)
T_bad_version ==
    <<"r", "i", "c", "h", "=", "=", "1", ".", "f", "o", "o">>

\* rich<1<2   (two operator tokens in one clause)
T_two_ops ==
    <<"r", "i", "c", "h", "<", "1", "<", "2">>

PredTexts == {T_rich_lt,
              T_rich_ge,
              T_both_lt,
              T_both_lt_semi,
              T_python,
              T_single_eq,
              T_second_single_eq,
              T_os,
              T_os_lt,
              T_os_then_single_eq,
              T_bad_version,
              T_two_ops}

V_0_5 == <<"0", ".", "5">>

V_win32 == <<"w", "i", "n", "3", "2">>

\* the dictionaries pretend_version is entered with
VersionDicts ==
    {[p \in {rich} |-> V_0_5],
     [p \in {rich, pytest, os} |-> IF p = os THEN V_win32 ELSE V_0_5]}

\* the dispatch points, and the function each was constructed from
DP == {1, 2}

\* function objects: "min" is a builtin, whose attributes cannot be set
Funcs == {"f", "min", "a", "b"}

Immutable == {"min"}

\* the registrations <<dispatch point, predicate set, function>> that are tried;
\* "outer" is a binder returned by register, passed as the function
RegisterInputs ==
    {<<1, T_rich_lt, "a">>, <<1, T_rich_ge, "b">>,
     <<1, T_both_lt, "a">>, <<1, T_both_lt_semi, "b">>,
     <<1, T_python, "b">>,
     <<1, T_rich_ge, "f">>, <<1, T_rich_lt, "min">>, <<1, T_rich_ge, "outer">>,
     <<1, T_single_eq, "a">>, <<1, T_second_single_eq, "a">>, <<1, T_os, "a">>,
     <<1, T_os_lt, "a">>,
     <<1, T_os_then_single_eq, "a">>,
     <<1, T_bad_version, "a">>, <<1, T_two_ops, "a">>,
     <<2, T_rich_ge, "a">>, <<2, T_rich_lt, "b">>}

\* the stacked registrations <<dispatch point, outer predicate set, inner
\* predicate set, function>> that are tried
StackedInputs ==
    {<<1, T_rich_lt, T_rich_ge, "a">>, <<1, T_rich_ge, T_rich_lt, "b">>,
     <<1, T_rich_ge, T_single_eq, "a">>}

\* the registrations with a warning= argument of test.py (lines 675, 684)
WarningInputs ==
    {<<1, T_rich_lt, "warning for old", "a">>,
     <<1, T_rich_ge, "warning for new", "b">>}

\* the version texts that are parsed:
\*   "1",  "1.0",  "1.0.0",  "1.0.1",  "1!0.5",  "1.0.dev1"
\*   "1.0a1",  "1.0a2",  "1.0b1",  "1.0rc1",  "1.0.post1",  "1.0a1.dev1"
\*   "1.0.post1.dev1",  "1.0+abc",  "1.0+abd",  "1.0+5",  "1.0+10",  "1.0+abc.1"
\*   "1.0-1",  "v1.0-ALPHA_2",  "1.0_rev-3.DEV",  "2!1.0PRE.1-r.2_dev3+Ab_1",  " 1.0c ",  "1.foo"
\*   "1.0beta3",  "1.0-preview-4"
VersionTexts ==
    {<<"1">>,
     <<"1", ".", "0">>,
     <<"1", ".", "0", ".", "0">>,
     <<"1", ".", "0", ".", "1">>,
     <<"1", "!", "0", ".", "5">>,
     <<"1", ".", "0", ".", "d", "e", "v", "1">>,
     <<"1", ".", "0", "a", "1">>,
     <<"1", ".", "0", "a", "2">>,
     <<"1", ".", "0", "b", "1">>,
     <<"1", ".", "0", "r", "c", "1">>,
     <<"1", ".", "0", ".", "p", "o", "s", "t", "1">>,
     <<"1", ".", "0", "a", "1", ".", "d", "e", "v", "1">>,
     <<"1", ".", "0", ".", "p", "o", "s", "t", "1", ".", "d", "e", "v", "1">>,
     <<"1", ".", "0", "+", "a", "b", "c">>,
     <<"1", ".", "0", "+", "a", "b", "d">>,
     <<"1", ".", "0", "+", "5">>,
     <<"1", ".", "0", "+", "1", "0">>,
     <<"1", ".", "0", "+", "a", "b", "c", ".", "1">>,
     <<"1", ".", "0", "-", "1">>,
     <<"v", "1", ".", "0", "-", "A", "L", "P", "H", "A", "_", "2">>,
     <<"1", ".", "0", "_", "r", "e", "v", "-", "3", ".", "D", "E", "V">>,
     <<"2", "!", "1", ".", "0", "P", "R", "E", ".", "1", "-", "r", ".", "2", "_", "d", "e", "v", "3", "+", "A", "b", "_", "1">>,
     <<" ", "1", ".", "0", "c", " ">>,
     <<"1", ".", "f", "o", "o">>,
     <<"1", ".", "0", "b", "e", "t", "a", "3">>,
     <<"1", ".", "0", "-", "p", "r", "e", "v", "i", "e", "w", "-", "4">>}

\* no version text has been chosen
NoVersions ==
    [texts |-> <<>>, parsed |-> <<>>, answers |-> <<>>, strs |-> <<>>,
     reparsed |-> <<>>]

\* no predicate clause has been chosen
NoClause == [input |-> [parts |-> <<>>, ops |-> <<>>], done |-> FALSE, result |-> None]

\* the predicate clauses that are parsed, each given by the operator tokens
\* in it and the texts before, between and after them: no token, with
\* nothing or a single = between subject and target; one token; two tokens
ClauseInputs ==
    LET Names   == {rich, <<" ">> \o rich \o <<" ">>, Python}
        Targets == {<<"1", ".", "0">>, <<" ", "1", ".", "0", " ">>, <<"3">>}
        Tokens  == Range(_OP_TABLE)
    IN  {[parts |-> <<n \o sep \o t>>, ops |-> <<>>] :
             n \in Names, sep \in {<<>>, <<"=">>}, t \in Targets}
        \cup {[parts |-> <<n, t>>, ops |-> <<o>>] :
                  n \in Names, o \in Tokens, t \in Targets}
        \cup {[parts |-> <<rich, <<"1">>, <<"2">> >>, ops |-> <<o1, o2>>] :
                  o1 \in Tokens, o2 \in Tokens}

\* the text of a predicate clause
ClauseText(c) ==
    Concat([k \in 1..(2 * Len(c.ops) + 1) |->
               IF k % 2 = 1 THEN c.parts[(k + 1) \div 2] ELSE c.ops[k \div 2]])

\* bounds of the exploration
MaxLog == 2

MaxDepth == 1

MaxCalls == 4

MaxSaved == 1

(***************************************************************************)
(* The values of register and of _matches_all_versions on the texts and    *)
(* resolvers of the model, computed once.                                  *)
(***************************************************************************)
\* the texts reset finds in the log: the stripped clauses joined by ","
LogTexts == {join(",", register_splits(t)) : t \in PredTexts}

RegisterTable == [t \in PredTexts \cup LogTexts |-> register(t)]

Resolvers == {OrigResolver} \cup {PretendResolver(vd) : vd \in VersionDicts}

Closures ==
    {c.value : c \in {r \in {RegisterTable[t] : t \in PredTexts \cup LogTexts} :
                          r.exc = "none"}}

MatchTable ==
    [gv \in Resolvers |->
        [pvs \in {c.packages_versions : c \in Closures} |->
            _matches_all_versions(gv, pvs)]]

\* self.register(package_versions), up to the return of the closure
self_register(package_versions) == RegisterTable[package_versions]

\* self._matches_all_versions(package_versions) under the resolver gv
self_matches_all_versions(gv, package_versions) == MatchTable[gv][package_versions]

(***************************************************************************)
(* State.                                                                  *)
(*   _func, _impl, _matched_version, _registered_funcs                     *)
(*       the fields of each versiondispatch object                         *)
(*   _is_versiondispatched                                                 *)
(*       the function objects whose attribute of that name is True         *)
(*   get_version   the function the global name get_version is bound to    *)
(*   scopes        the active pretend_version scopes, innermost last:      *)
(*                 each is the value of its local get_version_orig         *)
(*   num_calls     the number of calls of _matches_all_versions            *)
(*   exc, ret      the exception raised, and the value returned, by the    *)
(*                 last operation                                          *)
(*   saved         the pickled dispatch points, in the order of their dumps *)
(*   parsing       a predicate clause, made of the texts around its        *)
(*                 operator tokens, and the result of parsing it           *)
(*   versions      three version texts, the Version objects made from them, *)
(*                 the values of their comparisons, their str() and the    *)
(*                 Version objects made from these                         *)
(***************************************************************************)
VARIABLES _func, _impl, _matched_version, _registered_funcs,
          _is_versiondispatched, get_version, scopes, num_calls, exc, ret,
          saved, versions, parsing

vars == <<_func, _impl, _matched_version, _registered_funcs,
          _is_versiondispatched, get_version, scopes, num_calls, exc, ret,
          saved, versions, parsing>>

NoValue == [kind |-> "None", f |-> ""]

\* a function object, as a returned value
FuncValue(f) == [kind |-> "func", f |-> f]

\* the value returned by a call of the function object f
ResultOf(f) == [kind |-> "result", f |-> f]

\* versiondispatch.__init__
__init__(func) ==
    [_func |-> func, _impl |-> func, _matched_version |-> <<>>,
     _registered_funcs |-> <<>>]

Init ==
    /\ _func = [d \in DP |-> __init__(IF d = 1 THEN "f" ELSE "min")._func]
    /\ _impl = [d \in DP |-> __init__(_func[d])._impl]
    /\ _matched_version = [d \in DP |-> __init__(_func[d])._matched_version]
    /\ _registered_funcs = [d \in DP |-> __init__(_func[d])._registered_funcs]
    /\ _is_versiondispatched = {}
    /\ get_version = OrigResolver
    /\ scopes = <<>>
    /\ num_calls = 0
    /\ exc = "none"
    /\ ret = NoValue
    /\ saved = <<>>
    /\ versions = NoVersions
    /\ parsing = NoClause

\* the object d together with the state its methods read and write
Self(d) ==
    [_func |-> _func[d], _impl |-> _impl[d],
     _matched_version |-> _matched_version[d],
     _registered_funcs |-> _registered_funcs[d],
     _is_versiondispatched |-> _is_versiondispatched,
     num_calls |-> num_calls, exc |-> "none", ret |-> NoValue]

\* getattr(func, "_is_versiondispatched", False) is True
IsVersiondispatched(self, func) ==
    func = "outer" \/ func \in self._is_versiondispatched

\* self._impl._is_versiondispatched = True, ignoring the AttributeError
MarkImpl(self) ==
    IF self._impl \in Immutable THEN self._is_versiondispatched
    ELSE self._is_versiondispatched \cup {self._impl}

\* outer with the first matching registration kept: a later match does not
\* replace an implementation that was already selected
outer_first_match_kept(self, closure, gv, func) ==
    IF IsVersiondispatched(self, func) THEN [self EXCEPT !.exc = "nesting"]
    ELSE
      Only({IF m.exc # "none" THEN [appended EXCEPT !.exc = m.exc]
            ELSE IF m.value /\ self._impl = self._func
                 THEN [appended EXCEPT !._impl = func,
                                       !._matched_version = closure.version,
                                       !.ret = FuncValue(func)]
            ELSE [appended EXCEPT !.ret = FuncValue(appended._impl)] :
            appended \in
                {[self EXCEPT
                    !._is_versiondispatched = MarkImpl(self),
                    !._registered_funcs =
                        Append(@, <<join(",", closure.package_version_list), func>>),
                    !.num_calls = @ + 1]},
            m \in {self_matches_all_versions(gv, closure.packages_versions)}})

\* outer(func) of the closure made by register (lines 199-218)
outer(self, closure, gv, func) ==
    IF IsVersiondispatched(self, func) THEN [self EXCEPT !.exc = "nesting"]
    ELSE
      Only({IF m.exc # "none" THEN [appended EXCEPT !.exc = m.exc]
            ELSE IF m.value
                 THEN [appended EXCEPT !._impl = func,
                                       !._matched_version = closure.version,
                                       !.ret = FuncValue(func)]
            ELSE [appended EXCEPT !.ret = FuncValue(appended._impl)] :
            appended \in
                {[self EXCEPT
                    !._is_versiondispatched = MarkImpl(self),
                    !._registered_funcs =
                        Append(@, <<join(",", closure.package_version_list), func>>),
                    !.num_calls = @ + 1]},
            m \in {self_matches_all_versions(gv, closure.packages_versions)}})

\* self.register(package_versions)(func) with the entry appended to the log
\* before the predicate set is parsed
register_and_bind_log_first(self, package_versions, gv, func) ==
    Only({IF closure.exc # "none"
          THEN [self EXCEPT !.exc = closure.exc,
                            !._registered_funcs = Append(@, <<package_versions, func>>)]
          ELSE outer(self, closure.value, gv, func) :
          closure \in {self_register(package_versions)}})

\* self.register(package_versions)(func)
register_and_bind(self, package_versions, gv, func) ==
    Only({IF closure.exc # "none" THEN [self EXCEPT !.exc = closure.exc]
          ELSE outer(self, closure.value, gv, func) :
          closure \in {self_register(package_versions)}})

\* the replay loop of reset (lines 248-249); an exception ends it
RECURSIVE replay(_, _, _)
replay(self, registered_functions, gv) ==
    IF registered_functions = <<>> THEN self
    ELSE Only({IF next.exc # "none" THEN next
               ELSE replay(next, Tail(registered_functions), gv) :
               next \in {register_and_bind(self, Head(registered_functions)[1], gv,
                                           Head(registered_functions)[2])}})

\* reset (lines 242-249)
reset(self, gv) ==
    LET cleared == [self EXCEPT !._impl = self._func,
                                !._matched_version = <<>>,
                                !._registered_funcs = <<>>]
        done == replay(cleared, self._registered_funcs, gv)
    IN  [done EXCEPT !.ret = NoValue]

\* the state after a method of d has run and left self
Commit(d, self) ==
    /\ _impl' = [_impl EXCEPT ![d] = self._impl]
    /\ _matched_version' = [_matched_version EXCEPT ![d] = self._matched_version]
    /\ _registered_funcs' = [_registered_funcs EXCEPT ![d] = self._registered_funcs]
    /\ _is_versiondispatched' = self._is_versiondispatched
    /\ num_calls' = self.num_calls
    /\ exc' = self.exc
    /\ ret' = IF self.exc = "none" THEN self.ret ELSE NoValue
    /\ UNCHANGED <<parsing, versions, saved, _func, get_version, scopes>>

TotalLog == Len(_registered_funcs[1]) + Len(_registered_funcs[2])

\* @d.register(package_versions) applied to func
Register(d, package_versions, func) ==
    /\ exc = "none"
    /\ TotalLog < MaxLog
    /\ Commit(d, register_and_bind(Self(d), package_versions, get_version, func))

\* @d.register(package_versions, warning=warning) applied to func: register
\* (line 182) has the one parameter package_versions, so that the call raises
\* TypeError before its first statement and no binder is made
RegisterWarning(d, package_versions, warning, func) ==
    /\ exc = "none"
    /\ TotalLog < MaxLog
    /\ exc' = "TypeError"
    /\ ret' = NoValue
    /\ UNCHANGED <<parsing, versions, saved, _func, _impl, _matched_version, _registered_funcs,
                   _is_versiondispatched, get_version, scopes, num_calls>>

\* @d.register(outer_text) @d.register(inner_text) applied to func: both
\* binders are made, then the inner one is applied, then the outer one to
\* the value the inner one returned
stacked(self, outer_text, inner_text, gv, func) ==
    Only({IF first.exc # "none" THEN [self EXCEPT !.exc = first.exc]
          ELSE IF second.exc # "none" THEN [self EXCEPT !.exc = second.exc]
          ELSE Only({IF inner.exc # "none" THEN inner
                     ELSE outer(inner, first.value, gv, inner.ret.f) :
                     inner \in {outer(self, second.value, gv, func)}}) :
          first \in {self_register(outer_text)},
          second \in {self_register(inner_text)}})

RegisterStacked(d, outer_text, inner_text, func) ==
    /\ exc = "none"
    /\ TotalLog + 2 <= MaxLog
    /\ Commit(d, stacked(Self(d), outer_text, inner_text, get_version, func))

\* d(*args, **kwargs) with the predicate sets of the log evaluated again
Call_matching_again(d) ==
    /\ exc = "none"
    /\ num_calls + Len(_registered_funcs[d]) <= MaxCalls
    /\ ret' = ResultOf(_impl[d])
    /\ num_calls' = num_calls + Len(_registered_funcs[d])
    /\ exc' = "none"
    /\ UNCHANGED <<parsing, versions, saved, _func, _impl, _matched_version, _registered_funcs,
                   _is_versiondispatched, get_version, scopes>>

\* d(*args, **kwargs)
Call(d) ==
    /\ exc = "none"
    /\ ret' = ResultOf(_impl[d])
    /\ exc' = "none"
    /\ UNCHANGED <<parsing, versions, saved, _func, _impl, _matched_version, _registered_funcs,
                   _is_versiondispatched, get_version, scopes, num_calls>>

\* d.reset()
Reset(d) ==
    /\ exc = "none"
    /\ num_calls + Len(_registered_funcs[d]) <= MaxCalls
    /\ Commit(d, reset(Self(d), get_version))

\* __getstate__ (lines 226-227): a copy of the instance dictionary
__getstate__(self) ==
    [_func |-> self._func, _impl |-> self._impl,
     _matched_version |-> self._matched_version,
     _registered_funcs |-> self._registered_funcs]

\* __setstate__ (lines 251-253) on the object self that pickle has created
__setstate__(self, state, gv) ==
    reset([self EXCEPT !._func = state._func,
                       !._impl = state._impl,
                       !._matched_version = state._matched_version,
                       !._registered_funcs = state._registered_funcs],
          gv)

\* pickle.dumps(d)
Save(d) ==
    /\ exc = "none"
    /\ Len(saved) < MaxSaved
    /\ saved' = Append(saved, [d |-> d, state |-> __getstate__(Self(d))])
    /\ exc' = "none"
    /\ ret' = NoValue
    /\ UNCHANGED <<parsing, versions, _func, _impl, _matched_version, _registered_funcs,
                   _is_versiondispatched, get_version, scopes, num_calls>>

\* the state after pickle.loads has run __setstate__ on the new object
\* loaded: the name d is bound to it when __setstate__ returned, and keeps
\* the old object when it raised; functions are pickled by reference, so
\* their marks are those of the process
Loaded(d, loaded) ==
    IF loaded.exc = "none" THEN Commit(d, loaded)
    ELSE /\ _is_versiondispatched' = loaded._is_versiondispatched
         /\ num_calls' = loaded.num_calls
         /\ exc' = loaded.exc
         /\ ret' = NoValue
         /\ UNCHANGED <<parsing, versions, saved, _func, _impl, _matched_version, _registered_funcs,
                        get_version, scopes>>

\* d = pickle.loads(saved[k]), for the dispatch point d that was dumped
Restore(d, k) ==
    /\ exc = "none"
    /\ saved[k].d = d
    /\ TotalLog - Len(_registered_funcs[d])
           + Len(saved[k].state._registered_funcs) <= MaxLog
    /\ num_calls + Len(saved[k].state._registered_funcs) <= MaxCalls
    /\ Loaded(d, __setstate__(Self(d), saved[k].state, get_version))

\* with pretend_version(version_dict): up to the yield (lines 109-121)
EnterScope(version_dict) ==
    /\ exc = "none"
    /\ Len(scopes) < MaxDepth
    /\ scopes' = Append(scopes, get_version)
    /\ get_version' = PretendResolver(version_dict)
    /\ exc' = "none"
    /\ ret' = NoValue
    /\ UNCHANGED <<parsing, versions, saved, _func, _impl, _matched_version, _registered_funcs,
                   _is_versiondispatched, num_calls>>

\* the body of the innermost with block ends normally: line 123 runs
ExitScope ==
    /\ exc = "none"
    /\ scopes # <<>>
    /\ get_version' = scopes[Len(scopes)]
    /\ scopes' = SubSeq(scopes, 1, Len(scopes) - 1)
    /\ exc' = "none"
    /\ ret' = NoValue
    /\ UNCHANGED <<parsing, versions, saved, _func, _impl, _matched_version, _registered_funcs,
                   _is_versiondispatched, num_calls>>

\* the exception of the last operation leaves the innermost with block: it is
\* thrown into the generator at the yield, and line 123 does not run
ExitScopeOnError ==
    /\ scopes # <<>>
    /\ exc # "none"
    /\ scopes' = SubSeq(scopes, 1, Len(scopes) - 1)
    /\ UNCHANGED <<parsing, versions, saved, _func, _impl, _matched_version, _registered_funcs,
                   _is_versiondispatched, get_version, num_calls, exc, ret>>

\* the exception of the last operation is caught by a handler
Catch ==
    /\ exc # "none"
    /\ exc' = "none"
    /\ UNCHANGED <<parsing, versions, saved, _func, _impl, _matched_version, _registered_funcs,
                   _is_versiondispatched, get_version, scopes, num_calls, ret>>

Next ==
    \/ \E i \in RegisterInputs : Register(i[1], i[2], i[3])
    \/ \E i \in WarningInputs : RegisterWarning(i[1], i[2], i[3], i[4])
    \/ \E i \in StackedInputs : RegisterStacked(i[1], i[2], i[3], i[4])
    \/ \E d \in DP : Call(d)
    \/ \E d \in DP : Reset(d)
    \/ \E d \in DP : Save(d)
    \/ \E d \in DP : \E k \in 1..Len(saved) : Restore(d, k)
    \/ \E version_dict \in VersionDicts : EnterScope(version_dict)
    \/ ExitScope
    \/ ExitScopeOnError
    \/ Catch

Spec == Init /\ [][Next]_vars

(***************************************************************************)
(* Registrations and calls under one resolver that never changes: either   *)
(* the module-level get_version, or the one of a pretend_version scope     *)
(* that was entered before and is not left.                                *)
(***************************************************************************)
InitFixed ==
    /\ _func = [d \in DP |-> __init__(IF d = 1 THEN "f" ELSE "min")._func]
    /\ _impl = [d \in DP |-> __init__(_func[d])._impl]
    /\ _matched_version = [d \in DP |-> __init__(_func[d])._matched_version]
    /\ _registered_funcs = [d \in DP |-> __init__(_func[d])._registered_funcs]
    /\ _is_versiondispatched = {}
    /\ get_version \in Resolvers
    /\ scopes = IF get_version.pretend THEN <<OrigResolver>> ELSE <<>>
    /\ num_calls = 0
    /\ exc = "none"
    /\ ret = NoValue
    /\ saved = <<>>
    /\ versions = NoVersions
    /\ parsing = NoClause

NextFixed ==
    \/ \E i \in RegisterInputs : Register(i[1], i[2], i[3])
    \/ \E i \in WarningInputs : RegisterWarning(i[1], i[2], i[3], i[4])
    \/ \E i \in StackedInputs : RegisterStacked(i[1], i[2], i[3], i[4])
    \/ \E d \in DP : Call(d)
    \/ Catch

SpecFixed == InitFixed /\ [][NextFixed]_vars

(***************************************************************************)
(* Versions on their own: three version texts are parsed, the Version      *)
(* objects are compared with each other by every operator, rendered with   *)
(* str() and the renderings parsed again.  The dispatch points are not     *)
(* touched.                                                                *)
(***************************************************************************)
\* Version(text) for the texts that are parsed, each computed once
ParsedTable == [text \in VersionTexts |-> Version(text)]

\* str(v) for the Version objects made from the texts
StrTable ==
    [text \in {t \in VersionTexts : ParsedTable[t].valid} |->
        __str__(ParsedTable[text])]

\* Version(text) for these renderings
ReparsedTable ==
    [text \in {StrTable[t] : t \in DOMAIN StrTable} |-> Version(text)]

dispatch_vars ==
    <<_func, _impl, _matched_version, _registered_funcs,
      _is_versiondispatched, get_version, scopes, num_calls, exc, ret, saved>>

\* Version(text) for each of the texts; InvalidVersion stands for the
\* exception of that name
ParseVersions ==
    /\ versions.texts # <<>>
    /\ versions.parsed = <<>>
    /\ versions' = [versions EXCEPT
                       !.parsed = [k \in 1..Len(versions.texts) |->
                                      ParsedTable[versions.texts[k]]]]
    /\ UNCHANGED <<dispatch_vars, parsing>>

\* v0 == v1, v0 < v1, v0 <= v1, v0 > v1, v0 >= v1
Comparisons(v0, v1) ==
    [eq |-> __eq__(v0, v1), lt |-> __lt__(v0, v1), le |-> __le__(v0, v1),
     gt |-> __gt__(v0, v1), ge |-> __ge__(v0, v1)]

\* every Version object is compared with every other and with itself
CompareVersions ==
    /\ versions.parsed # <<>>
    /\ versions.answers = <<>>
    /\ \A k \in 1..Len(versions.parsed) : versions.parsed[k].valid
    /\ versions' = [versions EXCEPT
                       !.answers = [i \in 1..Len(versions.parsed) |->
                                       [j \in 1..Len(versions.parsed) |->
                                           Comparisons(versions.parsed[i],
                                                       versions.parsed[j])]]]
    /\ UNCHANGED <<dispatch_vars, parsing>>

\* str(v) for every Version object
StrVersions ==
    /\ versions.parsed # <<>>
    /\ versions.strs = <<>>
    /\ versions' = [versions EXCEPT
                       !.strs = [k \in 1..Len(versions.parsed) |->
                                    IF versions.parsed[k].valid
                                    THEN StrTable[versions.texts[k]] ELSE None]]
    /\ UNCHANGED <<dispatch_vars, parsing>>

\* Version(str(v)) for every Version object
ReparseVersions ==
    /\ versions.strs # <<>>
    /\ versions.reparsed = <<>>
    /\ versions' = [versions EXCEPT
                       !.reparsed = [k \in 1..Len(versions.strs) |->
                                        IF versions.parsed[k].valid
                                        THEN ReparsedTable[versions.strs[k]]
                                        ELSE InvalidVersion]]
    /\ UNCHANGED <<dispatch_vars, parsing>>

InitVersions ==
    /\ _func = [d \in DP |-> __init__(IF d = 1 THEN "f" ELSE "min")._func]
    /\ _impl = [d \in DP |-> __init__(_func[d])._impl]
    /\ _matched_version = [d \in DP |-> __init__(_func[d])._matched_version]
    /\ _registered_funcs = [d \in DP |-> __init__(_func[d])._registered_funcs]
    /\ _is_versiondispatched = {}
    /\ get_version = OrigResolver
    /\ scopes = <<>>
    /\ num_calls = 0
    /\ exc = "none"
    /\ ret = NoValue
    /\ saved = <<>>
    /\ versions \in {[NoVersions EXCEPT !.texts = <<a, b, c>>] :
                        a \in VersionTexts, b \in VersionTexts, c \in VersionTexts}
    /\ parsing = NoClause

NextVersions ==
    \/ ParseVersions
    \/ CompareVersions
    \/ StrVersions
    \/ ReparseVersions

SpecVersions == InitVersions /\ [][NextVersions]_vars

(***************************************************************************)
(* Predicate clauses on their own: one clause is parsed.                   *)
(***************************************************************************)
\* _split_package_version(package_version) for the text of the clause
SplitClause ==
    /\ ~parsing.done
    /\ parsing.input.parts # <<>>
    /\ parsing' = [parsing EXCEPT
                     !.done = TRUE,
                     !.result = _split_package_version(ClauseText(parsing.input))]
    /\ UNCHANGED <<dispatch_vars, versions>>

InitClauses ==
    /\ _func = [d \in DP |-> __init__(IF d = 1 THEN "f" ELSE "min")._func]
    /\ _impl = [d \in DP |-> __init__(_func[d])._impl]
    /\ _matched_version = [d \in DP |-> __init__(_func[d])._matched_version]
    /\ _registered_funcs = [d \in DP |-> __init__(_func[d])._registered_funcs]
    /\ _is_versiondispatched = {}
    /\ get_version = OrigResolver
    /\ scopes = <<>>
    /\ num_calls = 0
    /\ exc = "none"
    /\ ret = NoValue
    /\ saved = <<>>
    /\ versions = NoVersions
    /\ parsing \in {[NoClause EXCEPT !.input = c] : c \in ClauseInputs}

NextClauses == SplitClause

SpecClauses == InitClauses /\ [][NextClauses]_vars

(***************************************************************************)
(* Properties.                                                             *)
(***************************************************************************)
\* the predicate set text of a log entry matches under the resolver gv
Matches(gv, text) ==
    /\ RegisterTable[text].exc = "none"
    /\ MatchTable[gv][RegisterTable[text].value.packages_versions] = Return(TRUE)

\* the positions of the log of d whose predicate set matches under gv
MatchingEntries(gv, log) == {k \in 1..Len(log) : Matches(gv, log[k][1])}

Max(S) == CHOOSE k \in S : \A j \in S : j <= k

\* the implementation of the last matching entry of the log, the default
\* implementation when no entry matches
LastMatching(default, log, gv) ==
    IF MatchingEntries(gv, log) = {} THEN default
    ELSE log[Max(MatchingEntries(gv, log))][2]

C2_ResetAsFresh ==
    [][\A d \in DP :
           Reset(d) => /\ exc' = "none"
                       /\ _impl'[d] = LastMatching(_func[d], _registered_funcs[d],
                                                   get_version)]_vars

\* the clauses of the predicate sets that have several, as written
ClausesOf ==
    [t \in {T_both_lt, T_both_lt_semi} |->
        IF t = T_both_lt THEN <<T_rich_lt, T_pytest_lt>> ELSE <<T_pytest_lt, T_rich_lt>>]

\* the clause, evaluated on its own under the resolver gv, is true
ClauseHolds(gv, clause) ==
    Only({_matches_version(gv, pv.package, pv.version, pv.op) = Return(TRUE) :
          pv \in {_split_package_version(clause).value}})

ClauseTable ==
    [gv \in Resolvers |-> [c \in {T_rich_lt, T_pytest_lt} |-> ClauseHolds(gv, c)]]

AllClausesHold(gv, t) ==
    \A k \in 1..Len(ClausesOf[t]) : ClauseTable[gv][ClausesOf[t][k]]

\* C3: a predicate set of several clauses separated by "," or ";" matches
\* exactly when every clause, evaluated on its own against the resolver's
\* current value for its subject, is true: a registration with such a set
\* makes its function the active implementation when every clause is true,
\* and leaves the active implementation and the matched text as they were
\* when some clause is false.
C3_AllClauses ==
    /\ [](\A t \in DOMAIN ClausesOf :
              Matches(get_version, t) <=> AllClausesHold(get_version, t))
    /\ [][\A i \in RegisterInputs :
              (/\ i[2] \in DOMAIN ClausesOf
               /\ Register(i[1], i[2], i[3])
               /\ exc' = "none")
              => IF AllClausesHold(get_version, i[2])
                 THEN /\ _impl'[i[1]] = i[3]
                      /\ _matched_version'[i[1]] # <<>>
                 ELSE /\ _impl'[i[1]] = _impl[i[1]]
                      /\ _matched_version'[i[1]] = _matched_version[i[1]]]_vars

\* the log text of a predicate set: its stripped clauses joined by ","
LogText(t) == join(",", register_splits(t))

\* a predicate set of two clauses, the first true and the second false, was
\* registered after an accepted registration and left its implementation active
C3_Witness ==
    /\ Len(_registered_funcs[1]) = 2
    /\ _registered_funcs[1][2][1] = LogText(T_both_lt)
    /\ ClauseTable[get_version][T_rich_lt]
    /\ ~ClauseTable[get_version][T_pytest_lt]
    /\ _impl[1] = _registered_funcs[1][1][2]
    /\ _impl[1] # _registered_funcs[1][2][2]
    /\ exc = "none"

\* C4: matching is performed once for each completed registration and never
\* by a call: under registrations and calls the number of match evaluations
\* is the number of log entries, and a call changes neither the active
\* implementation, the matched text, the log nor the number of evaluations.
C4_MatchedOncePerRegistration ==
    /\ [](num_calls = TotalLog)
    /\ [][\A d \in DP :
              Call(d) => UNCHANGED <<_impl, _matched_version, _registered_funcs,
                                     num_calls>>]_vars

\* a call returned after two registrations of which one changed the active
\* implementation
C4_Witness ==
    /\ ret.kind = "result"
    /\ TotalLog = 2
    /\ num_calls = 2
    /\ \E d \in DP : ret.f = _impl[d] /\ _impl[d] # _func[d]

\* C5: registering a function that is at that moment the default or the
\* active implementation of some dispatch point, with a well-formed predicate
\* set, fails with the nesting error and leaves log and active implementation
\* unchanged.
C5_SlotRegistrationFails ==
    [][\A i \in RegisterInputs :
           (/\ RegisterTable[i[2]].exc = "none"
            /\ i[3] \in {_func[e] : e \in DP} \cup {_impl[e] : e \in DP}
            /\ Register(i[1], i[2], i[3]))
           => /\ exc' = "nesting"
              /\ UNCHANGED <<_registered_funcs, _impl>>]_vars

\* C6: two register binders of one dispatch point stacked on one function
\* fail with the nesting error under every resolver, whether the inner
\* predicate set matches or not.
C6_StackingFails ==
    [][\A i \in StackedInputs :
           (/\ RegisterTable[i[2]].exc = "none"
            /\ RegisterTable[i[3]].exc = "none"
            /\ RegisterStacked(i[1], i[2], i[3], i[4]))
           => exc' = "nesting"]_vars

\* the clauses of the predicate set t, stripped
Clauses(t) == register_splits(t)

\* the clause has no operator token
NoOperator(clause) == _OP_PAT_search(clause) = 0

\* the predicate sets with a clause that has no operator token
NoOperatorTexts ==
    {t \in PredTexts : \E k \in 1..Len(Clauses(t)) : NoOperator(Clauses(t)[k])}

\* the exception with which the clause alone is rejected ("none" when accepted)
ClauseError(clause) == _register_loop(<<clause>>, <<>>).exc

\* the exception of the first clause of t that is rejected
FirstClauseError ==
    [t \in NoOperatorTexts |->
        ClauseError(Clauses(t)[CHOOSE k \in 1..Len(Clauses(t)) :
                                   /\ ClauseError(Clauses(t)[k]) # "none"
                                   /\ \A j \in 1..(k - 1) :
                                          ClauseError(Clauses(t)[j]) = "none"])]

\* in t no clause before the first clause without operator token is rejected
FormatFirstTexts ==
    {t \in NoOperatorTexts :
        \A k \in 1..Len(Clauses(t)) :
            (\E j \in 1..(k - 1) : NoOperator(Clauses(t)[j]))
            \/ NoOperator(Clauses(t)[k])
            \/ ClauseError(Clauses(t)[k]) = "none"}

\* the registration changed nothing but the exception and the returned value
NoSideEffect ==
    UNCHANGED <<parsing, versions, saved, _func, _impl, _matched_version, _registered_funcs,
                _is_versiondispatched, get_version, scopes, num_calls>>

\* C7: a register call whose predicate set has a clause without operator
\* token, in any position, fails before any side effect with the error of
\* its first rejected clause: the format error when no earlier clause is
\* rejected for its subject or its target.
C7_NoOperatorFailsFirst ==
    [][\A i \in RegisterInputs :
           (i[2] \in NoOperatorTexts /\ Register(i[1], i[2], i[3]))
           => /\ exc' = FirstClauseError[i[2]]
              /\ i[2] \in FormatFirstTexts => exc' = "format"
              /\ NoSideEffect]_vars

\* C7 as stated: the error is the format error whatever precedes the clause
\* without operator token.
C7_AlwaysFormatError ==
    [][\A i \in RegisterInputs :
           (i[2] \in NoOperatorTexts /\ Register(i[1], i[2], i[3]))
           => exc' = "format" /\ NoSideEffect]_vars

\* a registration failed with the format error after an accepted and matching
\* registration, whose log entry and active implementation are still there
C7_Witness ==
    /\ exc = "format"
    /\ Len(_registered_funcs[1]) = 1
    /\ _impl[1] = _registered_funcs[1][1][2]
    /\ _impl[1] # _func[1]
    /\ _matched_version[1] # <<>>

\* C8: a registration that fails because a subject is not resolved or a
\* target is not a version fails when the predicate set is given, before
\* anything is bound: the log, the marks and the number of match evaluations
\* are unchanged.
C8_FailsBeforeBinding ==
    [][\A i \in RegisterInputs :
           (/\ Register(i[1], i[2], i[3])
            /\ exc' \in {"incorrect", "PackageNotFoundError", "InvalidVersion",
                         "NotImplementedError"})
           => NoSideEffect]_vars

\* C9: on every exit from a pretend_version scope, normal or by an
\* exception, get_version is again the function it was when the scope was
\* entered.
C9_ScopeRestores ==
    [][(ExitScope \/ ExitScopeOnError) => get_version' = scopes[Len(scopes)]]_vars

\* C10: inside a pretend_version scope whose dictionary gives "os" the value
\* "win32", registering "os==win32" with a function that is not marked
\* succeeds and makes the function the active implementation.
C10_OverrideDecides ==
    [][\A i \in RegisterInputs :
           (/\ i[2] = T_os
            /\ get_version.pretend
            /\ os \in DOMAIN get_version.version_dict
            /\ get_version.version_dict[os] = V_win32
            /\ ~IsVersiondispatched(Self(i[1]), i[3])
            /\ Register(i[1], i[2], i[3]))
           => exc' = "none" /\ _impl'[i[1]] = i[3]]_vars

\* C11: a dispatch point restored from its pickled state has the active
\* implementation that its default, its log and the resolver in force at the
\* restore determine: that of the last log entry that matches under that
\* resolver, the default when none matches, whatever was active at the dump.
C11_RestoreByLogOnly ==
    [][\A d \in DP : \A k \in 1..Len(saved) :
           Restore(d, k)
           => /\ exc' = "none"
              /\ _impl'[d] = LastMatching(_func[d], saved[k].state._registered_funcs,
                                          get_version)]_vars

\* C12: a registration made with a notice is accepted and, when its predicate
\* set matches, becomes the active registration, so that each call of the
\* dispatch point surfaces exactly this one notice; calls surface no notice
\* when the default or a registration without notice is active
C12_NoticeOfActive ==
    [][\A i \in WarningInputs :
           /\ RegisterWarning(i[1], i[2], i[3], i[4])
           /\ Matches(get_version, i[2])
           /\ i[4] \notin _is_versiondispatched \cup {_func[i[1]], _impl[i[1]]}
           => /\ exc' = "none"
              /\ _impl'[i[1]] = i[4]]_vars

\* the resolver gv gives the subject package a value that is not a version
PseudoVersion(gv, package) ==
    /\ gv.pretend
    /\ package \in DOMAIN gv.version_dict
    /\ ~Version(gv.version_dict[package]).valid

\* C13: for a subject whose resolved value is not a parseable version, a
\* registration whose predicate uses == is accepted, and one whose predicate
\* uses <, <=, > or >= fails at registration with the operator error
C13_PseudoVersionOperators ==
    [][\A i \in RegisterInputs :
           LET clause == _split_package_version(i[2])
           IN  (/\ Len(register_splits(i[2])) = 1
                /\ clause.exc = "none"
                /\ PseudoVersion(get_version, clause.value.package)
                /\ ~IsVersiondispatched(Self(i[1]), i[3])
                /\ Register(i[1], i[2], i[3]))
               => IF clause.value.op = "==" THEN exc' = "none"
                  ELSE exc' = "operator"]_vars

\* the positions of the Version objects that were compared
Compared == 1..Len(versions.answers)

\* C14: the relational operators on parsed versions form a strict total order
\* with equality: of a < b, a == b, a > b exactly one holds, a <= b holds
\* exactly when a < b or a == b, a >= b exactly when a > b or a == b, and <
\* is transitive, also where a key holds a sentinel for an absent segment
C14_StrictTotalOrder ==
    \A i \in Compared : \A j \in Compared :
        LET r == versions.answers[i][j]
        IN  /\ (r.lt /\ ~r.eq /\ ~r.gt) \/ (~r.lt /\ r.eq /\ ~r.gt)
                   \/ (~r.lt /\ ~r.eq /\ r.gt)
            /\ r.le <=> (r.lt \/ r.eq)
            /\ r.ge <=> (r.gt \/ r.eq)
            /\ \A k \in Compared :
                   r.lt /\ versions.answers[j][k].lt => versions.answers[i][k].lt

\* 1.0a1 < 1.0 < 1.0.post1 were compared: the pre element of the key of the
\* second and the post element of the keys of the first two are sentinels
C14_Witness ==
    /\ versions.answers # <<>>
    /\ versions.answers[1][2].lt /\ versions.answers[2][3].lt
    /\ versions.parsed[1]._key.pre.inf = 0
    /\ versions.parsed[2]._key.pre = Infinity
    /\ versions.parsed[2]._key.post = NegativeInfinity
    /\ versions.parsed[3]._key.post.inf = 0

\* C15: for every valid version text s, str(Version(s)) is a valid version
\* text and the Version made from it has the key of Version(s), whatever the
\* segments, tag spellings and separators of s
C15_StrRoundTrip ==
    \A k \in 1..Len(versions.reparsed) :
        versions.parsed[k].valid
        => /\ versions.reparsed[k].valid
           /\ versions.reparsed[k]._key = versions.parsed[k]._key

\* "2!1.0PRE.1-r.2_dev3+Ab_1", "1.0-1" and "1.0_rev-3.DEV" were rendered as
\* other texts and parsed again: all segments, the implicit post form, a
\* tag without number
C15_Witness ==
    /\ versions.reparsed # <<>>
    /\ \A k \in 1..3 : versions.parsed[k].valid
    /\ versions.parsed[1]._version.epoch = 2
    /\ versions.parsed[1]._version.pre = << <<"r", "c">>, 1>>
    /\ versions.parsed[1]._version.post # None
    /\ versions.parsed[1]._version.dev # None
    /\ versions.parsed[1]._version.local # None
    /\ versions.strs[1] # versions.texts[1]
    /\ versions.texts[2] = <<"1", ".", "0", "-", "1">>
    /\ versions.strs[2] = <<"1", ".", "0", ".", "p", "o", "s", "t", "1">>
    /\ versions.strs[3] = <<"1", ".", "0", ".", "p", "o", "s", "t", "3", ".", "d", "e", "v", "0">>
    /\ \A k \in 1..3 : versions.reparsed[k].valid

\* the kinds of a parsed version _version
DevOnly(v) == v.pre = None /\ v.post = None /\ v.dev # None

PreRelease(v) == v.pre # None

Plain(v) == v.pre = None /\ v.post = None /\ v.dev = None

PostRelease(v) == v.pre = None /\ v.post # None

\* the rank of the normalised pre-release tags a, b, rc
TagRank(letter) ==
    IF letter = <<"a">> THEN 1 ELSE IF letter = <<"b">> THEN 2 ELSE 3

Stripped(r) == SubSeq(r, 1, Max({k \in 1..Len(r) : r[k] # 0} \cup {0}))

\* r1 is a proper prefix of r2
ProperPrefix(r1, r2) == Len(r1) < Len(r2) /\ SubSeq(r2, 1, Len(r1)) = r1

\* C17: two versions that differ only by trailing zero components of the
\* release are equal; with the same epoch, a release that without its
\* trailing zeros is a proper prefix of another is before it; a version with
\* a higher epoch is after any version with a lower one
C17_ReleaseAndEpoch ==
    \A i \in Compared : \A j \in Compared :
        LET a == versions.parsed[i]._version
            b == versions.parsed[j]._version
            r == versions.answers[i][j]
        IN  /\ (/\ [a EXCEPT !.release = <<>>] = [b EXCEPT !.release = <<>>]
                /\ Stripped(a.release) = Stripped(b.release)) => r.eq
            /\ (/\ a.epoch = b.epoch
                /\ ProperPrefix(Stripped(a.release), Stripped(b.release))) => r.lt
            /\ a.epoch > b.epoch => r.gt

\* 1, 1.0.0 and 1.0.1 were compared
C17_Witness ==
    /\ versions.answers # <<>>
    /\ versions.parsed[1]._version.release = <<1>>
    /\ versions.parsed[2]._version.release = <<1, 0, 0>>
    /\ versions.parsed[3]._version.release = <<1, 0, 1>>
    /\ versions.answers[1][2].eq
    /\ versions.answers[2][3].lt

\* C18: for versions equal in every public segment, a version without local
\* segment is before any version with one; at the first position where two
\* local segments differ an alphanumeric part is before a numeric one, two
\* numeric parts are ordered as numbers and two alphanumeric parts as
\* strings; and a local segment that is a proper prefix of another is
\* before it
C18_LocalOrder ==
    \A i \in Compared : \A j \in Compared :
        LET a == versions.parsed[i]._version
            b == versions.parsed[j]._version
            lt == versions.answers[i][j].lt
            k == FirstDiff(a.local, b.local)
        IN  [a EXCEPT !.local = None] = [b EXCEPT !.local = None]
            => /\ a.local = None /\ b.local # None => lt
               /\ (a.local # None /\ b.local # None /\ k # 0)
                  => /\ ~a.local[k].isint /\ b.local[k].isint => lt
                     /\ (/\ a.local[k].isint /\ b.local[k].isint
                         /\ a.local[k].i < b.local[k].i) => lt
                     /\ (/\ ~a.local[k].isint /\ ~b.local[k].isint
                         /\ CmpStr(a.local[k].s, b.local[k].s) < 0) => lt
               /\ (a.local # None /\ ProperPrefix(a.local, b.local)) => lt

\* 1.0+abc, 1.0+5 and 1.0+10 were compared: an alphanumeric part with a
\* numeric one, and two numeric parts whose order as strings is the reverse
C18_Witness ==
    /\ versions.answers # <<>>
    /\ \A n \in 1..3 : Len(versions.parsed[n]._version.local) = 1
    /\ ~versions.parsed[1]._version.local[1].isint
    /\ versions.parsed[2]._version.local[1].i = 5
    /\ versions.parsed[3]._version.local[1].i = 10
    /\ versions.answers[1][2].lt
    /\ versions.answers[2][3].lt

\* C19: _matched_version of a dispatch point is the empty string only while
\* its default is active, and otherwise it is the predicate text, as logged,
\* of a registration whose function is the active implementation: the whole
\* predicate set, not a part of its last clause
C19_MatchedPredicateText ==
    \A d \in DP :
        IF _matched_version[d] = <<>> THEN _impl[d] = _func[d]
        ELSE \E k \in 1..Len(_registered_funcs[d]) :
                 /\ _registered_funcs[d][k][2] = _impl[d]
                 /\ _registered_funcs[d][k][1] = _matched_version[d]

\* the predicate set t has a clause whose subject is Python, in any case
PythonSubject(t) ==
    \E k \in 1..Len(register_splits(t)) :
        LET clause == _split_package_version(register_splits(t)[k])
        IN  clause.exc = "none" /\ lower(clause.value.package) = lower(Python)

\* C20: a predicate whose subject is Python, in any letter case, resolves at
\* every registration and every reset, also inside a pretend_version scope
\* whose dictionary does not name it: neither fails as not installed or not
\* found; and outside a scope its value is the version of the interpreter
C20_PythonAlwaysResolves ==
    [][/\ \A i \in RegisterInputs :
              (PythonSubject(i[2]) /\ Register(i[1], i[2], i[3]))
              => exc' \notin {"incorrect", "PackageNotFoundError"}
       /\ \A d \in DP :
              (/\ \E k \in 1..Len(_registered_funcs[d]) :
                      PythonSubject(_registered_funcs[d][k][1])
               /\ Reset(d))
              => exc' \notin {"incorrect", "PackageNotFoundError"}
       /\ ~get_version.pretend
              => CallGetVersion(get_version, Python)
                     = NewVersion(<<"3", ".", "9", ".", "1">>)]_vars

\* C21: parsing a clause made of a name, one operator token and a target
\* gives the name without surrounding spaces, this token and the target
\* without surrounding spaces, so that >=, <= are not read as > or < before
\* a target that begins with =; a clause without operator token and a
\* clause with two operator tokens are rejected
C21_ClauseParse ==
    parsing.done
    => IF Len(parsing.input.ops) = 1
       THEN parsing.result = Return([package |-> strip(parsing.input.parts[1]),
                                     version |-> strip(parsing.input.parts[2]),
                                     op      |-> parsing.input.ops[1]])
       ELSE parsing.result.exc # "none"

\* " rich >= 1.0 " was parsed
C21_Witness ==
    /\ parsing.done
    /\ parsing.input.ops = << <<">", "=">> >>
    /\ parsing.input.parts[1] = <<" ">> \o rich \o <<" ">>
    /\ parsing.input.parts[2] = <<" ", "1", ".", "0", " ">>
    /\ parsing.result.exc = "none"
    /\ parsing.result.value.package = rich
    /\ parsing.result.value.version = <<"1", ".", "0">>

\* C22: a register operation that ends in an error, raised when the
\* predicate set is given or when the function is bound (also while the
\* version of a subject is resolved or parsed for the matching), leaves the
\* log, the active implementation and the matched text of every dispatch
\* point as they were
C22_FailedRegisterChangesNothing ==
    [][\A i \in RegisterInputs :
           (Register(i[1], i[2], i[3]) /\ exc' # "none")
           => UNCHANGED <<_registered_funcs, _impl, _matched_version>>]_vars

\* the predicate set t is evaluated without error under the resolver gv
Evaluates(gv, t) ==
    /\ RegisterTable[t].exc = "none"
    /\ MatchTable[gv][RegisterTable[t].value.packages_versions].exc = "none"

\* C23: on a dispatch point whose log holds registrations of functions
\* other than its default that are evaluated without error under the
\* resolver in force, reset() does not raise and leaves in the log the same
\* predicate sets with the same functions in the same order, also when a
\* registration matched and others followed it
C23_ResetCompletes ==
    [][\A d \in DP :
           (/\ \A k \in 1..Len(_registered_funcs[d]) :
                   /\ Evaluates(get_version, _registered_funcs[d][k][1])
                   /\ _registered_funcs[d][k][2] # _func[d]
            /\ Reset(d))
           => /\ exc' = "none"
              /\ _registered_funcs'[d] = _registered_funcs[d]]_vars

====
